---- MODULE Spec2Model ----
(***************************************************************************)
(* A model of DataSierra's services: the session service and its local     *)
(* query history, the authentication service over the Streamlit session    *)
(* state, the Firestore query store, the file service behind the upload    *)
(* component, and the AI service.                                          *)
(***************************************************************************)
EXTENDS Integers, Sequences, FiniteSets, TLC

(***************************************************************************)
(* Bounds of the model.                                                    *)
(***************************************************************************)
\* readings of the wall clock: Tick stops here
MaxClock == 1
\* entries the local history is let grow to
MaxHistory == 2
\* save_query_history is not called once current_query_id has reached this
MaxQueryId == 3
\* documents the Firestore store is let grow to
MaxDocs == 2
\* largest limit handed to the history readers
MaxLimit == 3

\* the question-and-answer exchanges the OpenAI client is let to remember
MaxExchanges == 2
MaxMessages == 12
MaxPasswordLength == 130
MaxStored == 101
MaxChartFiles == 2

(***************************************************************************)
(* Python values.                                                          *)
(***************************************************************************)
\* Python's None where the other values are strings
None == "None"

\* a call that returned v
Return(v) == [kind |-> "return", val |-> v]

\* a call that raised an exception of class exc
Raise(exc) == [kind |-> "raise", val |-> exc]

\* a datetime object read from the clock at time t
DateTime(t) == [kind |-> "datetime", t |-> t]

\* datetime.isoformat(): the ISO-8601 string of a datetime
isoformat(dt) == [kind |-> "str", t |-> dt.t]

\* datetime.fromisoformat(x): parses a str, raises TypeError for anything else
fromisoformat(x) == IF x.kind = "str" THEN Return(DateTime(x.t)) ELSE Raise("TypeError")

\* the upper-case letters of the texts and, at the same place, their lower case
UpperChars == <<"A", "B", "J", "S", "O", "N", "C">>
LowerChars == <<"a", "b", "j", "s", "o", "n", "c">>

\* str.lower() on one character
LowerChar(c) == IF \E i \in 1..Len(UpperChars) : UpperChars[i] = c THEN LowerChars[CHOOSE i \in 1..Len(UpperChars) : UpperChars[i] = c] ELSE c

\* str.lower(): texts are sequences of characters
lower(s) == [i \in 1..Len(s) |-> LowerChar(s[i])]

\* Python's `sub in s` on strings
Contains(sub, s) == \E i \in 0..(Len(s) - Len(sub)) : SubSeq(s, i + 1, i + Len(sub)) = sub

\* str.endswith(suffix)
EndsWith(s, suffix) == Len(s) >= Len(suffix) /\ SubSeq(s, Len(s) - Len(suffix) + 1, Len(s)) = suffix

\* s[start:] with Python's rule for a negative start
SliceFrom(s, start) == LET n == Len(s) from == IF start < 0 THEN (IF n + start < 0 THEN 0 ELSE n + start) ELSE (IF start > n THEN n ELSE start) IN SubSeq(s, from + 1, n)

\* s[:stop] for stop >= 0
SliceTo(s, stop) == SubSeq(s, 1, IF stop > Len(s) THEN Len(s) ELSE stop)

\* list(reversed(s))
Reversed(s) == [i \in 1..Len(s) |-> s[Len(s) + 1 - i]]

\* max of a non-empty set of integers
MaxOf(S) == CHOOSE m \in S : \A x \in S : x <= m

(***************************************************************************)
(* Inputs.                                                                 *)
(***************************************************************************)
Emails == {"ann@x.io", "bob@x.io", "cat@x.io"}
Passwords == {"secret1", "wrong"}
\* the uid (localId) the identity provider gives an account
UidOf == [e \in Emails |-> IF e = "ann@x.io" THEN "uidA" ELSE IF e = "bob@x.io" THEN "uidB" ELSE "uidC"]
Uids == {UidOf[e] : e \in Emails}
Queries == {<<"a", "b">>, <<"B">>}
Responses == {<<"A">>}
FileNames == {"sales.csv"}
FeedbackTypes == {"positive", "negative"}
Comments == {"nice", ""}
\* the query ids feedback is submitted for
FeedbackIds == {0, 1}
\* Optional[str] search terms: None, "" and two texts
NoTerm == [none |-> TRUE, s |-> <<>>]
Term(s) == [none |-> FALSE, s |-> s]
SearchTerms == {NoTerm, Term(<<>>), Term(<<"a">>), Term(<<"B">>)}
\* the id strings handed to Firestore and the ids Firestore generates
DocIdSeq == <<"d1", "d2", "d3", "d4", "d5", "d6", "d7", "d8", "d9", "d10", "d11", "d12", "d13", "d14", "d15", "d16", "d17", "d18", "d19", "d20", "d21", "d22", "d23", "d24", "d25", "d26", "d27", "d28", "d29", "d30", "d31", "d32", "d33", "d34", "d35", "d36", "d37", "d38", "d39", "d40", "d41", "d42", "d43", "d44", "d45", "d46", "d47", "d48", "d49", "d50", "d51", "d52", "d53", "d54", "d55", "d56", "d57", "d58", "d59", "d60", "d61", "d62", "d63", "d64", "d65", "d66", "d67", "d68", "d69", "d70", "d71", "d72", "d73", "d74", "d75", "d76", "d77", "d78", "d79", "d80", "d81", "d82", "d83", "d84", "d85", "d86", "d87", "d88", "d89", "d90", "d91", "d92", "d93", "d94", "d95", "d96", "d97", "d98", "d99", "d100", "d101", "d102", "d103", "d104", "d105", "d106", "d107", "d108", "d109", "d110">>
DocIds == {DocIdSeq[1], DocIdSeq[2]}

VARIABLES
  \* st.session_state: each key is absent (<<>>) or holds a value (<<v>>)
  session_state,
  \* AuthService.auth is not None
  auth,
  \* the identity provider's accounts: email -> password
  accounts,
  \* SessionService.query_history, current_query_id, feedback_data
  query_history,
  current_query_id,
  feedback_data,
  \* FirestoreQueryService.db is not None
  db,
  \* the documents of users/{uid}/queries in Firestore
  firestore,
  \* the wall clock
  clock,
  \* AIService.openai_client is not None
  openai_client,
  \* AIService.pandasai_processor: "None", or a processor that is "ready" or "not_available"
  pandasai_processor,
  \* AIService.conversation_sessions: session id -> ConversationMemory
  conversation_sessions,
  \* OpenAIClient.conversation_memory.conversations: session id -> messages
  conversation_memory,
  \* FirebaseConfig._app and FirebaseConfig._db: None (<<>>) or the app, the client
  _app,
  _db,
  \* the last call: its name, arguments and result
  last

ai_vars == <<openai_client, pandasai_processor, conversation_sessions, conversation_memory>>

firebase_vars == <<_app, _db>>

vars == <<session_state, auth, accounts, query_history, current_query_id, feedback_data, db, firestore, clock, ai_vars, firebase_vars, last>>

(***************************************************************************)
(* AuthService over st.session_state (src/services/auth_service.py).       *)
(***************************************************************************)
Absent == <<>>

\* st.session_state.get(key, default)
session_get(key, default) == IF session_state[key] = Absent THEN default ELSE session_state[key][1]

\* `code in error_msg`: an error message is a sequence of words
InMsg(code, error_msg) == \E i \in 1..Len(error_msg) : error_msg[i] = code

\* the user dict the identity provider returns
ProviderUser(email) == [localId |-> UidOf[email], email |-> email, idToken |-> "idtok", refreshToken |-> "rtok"]

\* a response of the identity provider that lacks the refresh token
PartialUser(email) == [localId |-> UidOf[email], email |-> email, idToken |-> "idtok"]

\* pyrebase auth.create_user_with_email_and_password: net is what the call meets
create_user_with_email_and_password(email, password, net) == IF net = "error" THEN Raise(<<"Connection", "aborted">>) ELSE IF email \notin Emails THEN Raise(<<"400", "INVALID_EMAIL">>) ELSE IF email \in DOMAIN accounts THEN Raise(<<"400", "EMAIL_EXISTS">>) ELSE IF password = "weak" THEN Raise(<<"400", "WEAK_PASSWORD">>) ELSE IF net = "partial" THEN Return(PartialUser(email)) ELSE Return(ProviderUser(email))

\* pyrebase auth.sign_in_with_email_and_password
sign_in_with_email_and_password(email, password, net) == IF net = "error" THEN Raise(<<"Connection", "aborted">>) ELSE IF email \notin Emails THEN Raise(<<"400", "INVALID_EMAIL">>) ELSE IF email \notin DOMAIN accounts THEN Raise(<<"400", "EMAIL_NOT_FOUND">>) ELSE IF accounts[email] # password THEN Raise(<<"400", "INVALID_PASSWORD">>) ELSE IF net = "disabled" THEN Raise(<<"400", "USER_DISABLED">>) ELSE IF net = "partial" THEN Return(PartialUser(email)) ELSE Return(ProviderUser(email))

\* the except branch of sign_up: the message for an error text
sign_up_error(error_msg) == IF InMsg("EMAIL_EXISTS", error_msg) THEN <<"An account with this email already exists">> ELSE IF InMsg("WEAK_PASSWORD", error_msg) THEN <<"Password should be at least 6 characters">> ELSE IF InMsg("INVALID_EMAIL", error_msg) THEN <<"Please enter a valid email address">> ELSE <<"Sign up failed:">> \o error_msg

\* the except branch of sign_in
sign_in_error(error_msg) == IF InMsg("INVALID_PASSWORD", error_msg) THEN <<"Invalid password">> ELSE IF InMsg("EMAIL_NOT_FOUND", error_msg) THEN <<"No account found with this email">> ELSE IF InMsg("INVALID_EMAIL", error_msg) THEN <<"Please enter a valid email address">> ELSE IF InMsg("USER_DISABLED", error_msg) THEN <<"This account has been disabled">> ELSE <<"Sign in failed:">> \o error_msg

\* the keys sign_up and sign_in read from the provider's user dict
UserKeys == {"localId", "email", "idToken", "refreshToken"}

\* the session state after the two assignments that store the user
store_user(user) == [user |-> <<[uid |-> user.localId, email |-> user.email, idToken |-> user.idToken, refreshToken |-> user.refreshToken]>>, authenticated |-> <<TRUE>>]

\* the try body of sign_up and sign_in after the provider answered resp:
\* the dict literal is built (KeyError for a missing key) before anything is assigned
sign_outcome(resp, method, ok_msg) == LET error(error_msg) == IF method = "sign_up" THEN sign_up_error(error_msg) ELSE sign_in_error(error_msg) IN IF resp.kind = "raise" THEN [ss |-> session_state, ret |-> Return(<<FALSE, error(resp.val)>>)] ELSE IF ~(UserKeys \subseteq DOMAIN resp.val) THEN [ss |-> session_state, ret |-> Return(<<FALSE, error(<<"'refreshToken'">>)>>)] ELSE [ss |-> store_user(resp.val), ret |-> Return(<<TRUE, <<ok_msg>>>>)]

\* AuthService.sign_up
sign_up(email, password, net) ==
  LET resp == create_user_with_email_and_password(email, password, net)
      out == IF ~auth THEN [ss |-> session_state, ret |-> Return(<<FALSE, <<"Firebase authentication not initialized">>>>)] ELSE sign_outcome(resp, "sign_up", "Account created successfully!")
  IN /\ session_state' = out.ss
     /\ accounts' = IF auth /\ resp.kind = "return" THEN [e \in DOMAIN accounts \cup {email} |-> IF e = email THEN password ELSE accounts[e]] ELSE accounts
     /\ last' = [op |-> "sign_up", email |-> email, ret |-> out.ret]
     /\ UNCHANGED <<firebase_vars, ai_vars, auth, query_history, current_query_id, feedback_data, db, firestore, clock>>

\* sign_in that drops the session when the attempt fails
sign_in_resetting(email, password, net) ==
  LET resp == sign_in_with_email_and_password(email, password, net)
      out == IF ~auth THEN [ss |-> session_state, ret |-> Return(<<FALSE, <<"Firebase authentication not initialized">>>>)] ELSE sign_outcome(resp, "sign_in", "Signed in successfully!")
  IN /\ session_state' = IF out.ret.val[1] THEN out.ss ELSE [user |-> Absent, authenticated |-> Absent]
     /\ last' = [op |-> "sign_in", email |-> email, ret |-> out.ret]
     /\ UNCHANGED <<firebase_vars, ai_vars, auth, accounts, query_history, current_query_id, feedback_data, db, firestore, clock>>

\* AuthService.sign_in
sign_in(email, password, net) ==
  LET resp == sign_in_with_email_and_password(email, password, net)
      out == IF ~auth THEN [ss |-> session_state, ret |-> Return(<<FALSE, <<"Firebase authentication not initialized">>>>)] ELSE sign_outcome(resp, "sign_in", "Signed in successfully!")
  IN /\ session_state' = out.ss
     /\ last' = [op |-> "sign_in", email |-> email, ret |-> out.ret]
     /\ UNCHANGED <<firebase_vars, ai_vars, auth, accounts, query_history, current_query_id, feedback_data, db, firestore, clock>>

\* sign_out that deletes the user and keeps the authenticated flag
sign_out_keeping_authenticated ==
  /\ session_state' = [session_state EXCEPT !.user = Absent]
  /\ last' = [op |-> "sign_out", signed_in |-> session_state.authenticated = <<TRUE>>, ret |-> Return(TRUE)]
  /\ UNCHANGED <<firebase_vars, ai_vars, auth, accounts, query_history, current_query_id, feedback_data, db, firestore, clock>>

\* AuthService.sign_out
sign_out ==
  /\ session_state' = [user |-> Absent, authenticated |-> Absent]
  /\ last' = [op |-> "sign_out", signed_in |-> session_state.authenticated = <<TRUE>>, ret |-> Return(TRUE)]
  /\ UNCHANGED <<firebase_vars, ai_vars, auth, accounts, query_history, current_query_id, feedback_data, db, firestore, clock>>

\* AuthService.is_authenticated
is_authenticated == session_get("authenticated", FALSE)

\* AuthService.get_current_user: <<>> is None, <<u>> the user dict
get_current_user == IF is_authenticated THEN session_state["user"] ELSE Absent

\* AuthService.get_user_email
get_user_email == IF get_current_user # Absent THEN get_current_user[1].email ELSE None

\* the methods class AuthService defines
AuthServiceMethods == {"sign_up", "sign_in", "sign_out", "is_authenticated", "is_initialized", "get_current_user", "get_user_email", "refresh_token", "validate_email", "validate_password"}

\* self.auth_service.get_user_uid() in SessionService: AuthService defines no
\* such method (FirebaseAuthService does), so the attribute lookup raises
get_user_uid == IF "get_user_uid" \in AuthServiceMethods THEN Return(IF get_current_user # Absent THEN get_current_user[1].uid ELSE None) ELSE Raise("AttributeError")

(***************************************************************************)
(* FirestoreQueryService (src/services/firestore_query_service.py).        *)
(* A document of users/{uid}/queries is a record: uid is the user document *)
(* of its path, id its document id; owner records the uid the saving call  *)
(* was given.                                                              *)
(***************************************************************************)
\* the place of a document id in the order Firestore sorts ids by
DocIdRank(d) == CHOOSE i \in 1..Len(DocIdSeq) : DocIdSeq[i] = d

\* hash(doc.id): a signed number fixed for the id string within one process
hash(d) == IF DocIdRank(d) % 2 = 1 THEN -(DocIdRank(d) * 7919) ELSE DocIdRank(d) * 7919

\* hash(doc.id) % (2**31): Python's modulus is never negative; for a hash below
\* 2**31 in size it adds 2**31 = 2147483647 + 1 to a negative one
DocIdHash(d) == IF hash(d) < 0 THEN 2147483647 + (hash(d) + 1) ELSE hash(d)

\* str(query_id) for the small ids of the model
IntStrings == <<"0", "1", "2", "3", "4", "5", "6", "7", "8", "9", "10", "11", "12", "13", "14", "15">>
str(n) == IntStrings[n + 1]

\* a collection-group query: the queries of every user
Collection_of_all_users(store, user_uid) == store

\* the query documents stored under users/{user_uid}/queries
Collection(store, user_uid) == {d \in store : d.uid = user_uid}

\* order_by(timestamp, DESCENDING): later first, ties by document id
Before(d, e) == d.timestamp.t > e.timestamp.t \/ (d.timestamp.t = e.timestamp.t /\ DocIdRank(d.id) > DocIdRank(e.id))

\* the documents of S as the stream of the ordered query
RECURSIVE Stream(_)
Stream(S) == IF S = {} THEN <<>> ELSE LET first == CHOOSE d \in S : \A e \in S \ {d} : Before(d, e) IN <<first>> \o Stream(S \ {first})

\* the QueryHistory object built from a document
QueryHistoryOfDoc(d) == [id |-> DocIdHash(d.id), query |-> d.query, response |-> d.response, file_name |-> d.file_name, timestamp |-> d.timestamp, feedback |-> d.feedback]

\* FirestoreQueryService.save_query: doc_id is the id Firestore generates,
\* fail says the remote call raised. The result is the store and the return value.
save_query(store, user_uid, query, response, file_name, doc_id, fail) == IF ~db \/ fail THEN [store |-> store, ret |-> Return(None)] ELSE [store |-> store \cup {[uid |-> user_uid, id |-> doc_id, query |-> query, response |-> response, file_name |-> file_name, timestamp |-> DateTime(clock), feedback |-> None, owner |-> user_uid]}, ret |-> Return(doc_id)]

\* the documents the query of get_user_queries streams: ordered, at most limit
queried_docs(store, user_uid, limit) == LET docs == Stream(Collection(store, user_uid)) IN SubSeq(docs, 1, IF limit < Len(docs) THEN limit ELSE Len(docs))

\* FirestoreQueryService.get_user_queries (order_by = 'timestamp')
get_user_queries(store, user_uid, limit, fail) == IF ~db \/ fail THEN <<>> ELSE LET docs == queried_docs(store, user_uid, limit) IN [i \in 1..Len(docs) |-> QueryHistoryOfDoc(docs[i])]

\* the filter of search_user_queries and of get_query_history
Matches(search_term, item) == Contains(lower(search_term), lower(item.query)) \/ Contains(lower(search_term), lower(item.response))

\* FirestoreQueryService.search_user_queries
search_user_queries(store, user_uid, search_term, limit, fail) == IF ~db \/ search_term.none \/ search_term.s = <<>> THEN <<>> ELSE LET all_queries == get_user_queries(store, user_uid, 100, fail) filtered == SelectSeq(all_queries, LAMBDA q : Matches(search_term.s, q)) IN SliceTo(filtered, limit)

\* FirestoreQueryService.update_query_feedback: update() raises NotFound for a missing document
update_query_feedback(store, user_uid, query_id, feedback, fail) == IF ~db \/ fail \/ ~(\E d \in Collection(store, user_uid) : d.id = query_id) THEN [store |-> store, ret |-> Return(FALSE)] ELSE [store |-> {IF d.uid = user_uid /\ d.id = query_id THEN [d EXCEPT !.feedback = feedback] ELSE d : d \in store}, ret |-> Return(TRUE)]

\* FirestoreQueryService.delete_query: delete() of a missing document succeeds
delete_query(store, user_uid, query_id, fail) == IF ~db \/ fail THEN [store |-> store, ret |-> Return(FALSE)] ELSE [store |-> {d \in store : ~(d.uid = user_uid /\ d.id = query_id)}, ret |-> Return(TRUE)]

\* FirestoreQueryService.clear_user_queries: the loop deletes the streamed documents one
\* by one; when a call raises the documents in `gone` are already deleted
clear_user_queries(store, user_uid, fail, gone) == IF ~db THEN [store |-> store, ret |-> Return(FALSE)] ELSE IF fail THEN [store |-> store \ (gone \cap Collection(store, user_uid)), ret |-> Return(FALSE)] ELSE [store |-> store \ Collection(store, user_uid), ret |-> Return(TRUE)]

(***************************************************************************)
(* SessionService (src/services/session_service.py).                       *)
(***************************************************************************)
\* the dataclass QueryHistory
QueryHistory(id, query, response, file_name, timestamp, feedback) == [id |-> id, query |-> query, response |-> response, file_name |-> file_name, timestamp |-> timestamp, feedback |-> feedback]

\* QueryHistory.to_dict: the fields as they are, the timestamp still a datetime
to_dict(q) == [id |-> q.id, query |-> q.query, response |-> q.response, file_name |-> q.file_name, timestamp |-> q.timestamp, feedback |-> q.feedback]

\* a Python truth test of Optional[str]
Truthy(term) == ~term.none /\ term.s # <<>>

\* the fallback of get_query_history: the local history
local_history(limit, search_term) == LET filtered_history == IF Truthy(search_term) THEN SelectSeq(query_history, LAMBDA item : Matches(search_term.s, item)) ELSE query_history IN Reversed(SliceFrom(filtered_history, -limit))

\* SessionService.get_query_history(limit, search_term)
get_query_history(limit, search_term) == IF is_authenticated THEN (IF get_user_uid.kind = "raise" THEN get_user_uid ELSE IF get_user_uid.val # None THEN (IF Truthy(search_term) THEN Return(search_user_queries(firestore, get_user_uid.val, search_term, limit, FALSE)) ELSE Return(get_user_queries(firestore, get_user_uid.val, limit, FALSE))) ELSE Return(local_history(limit, search_term))) ELSE Return(local_history(limit, search_term))

\* the loop of get_query_by_id over the local history: <<>> is None
local_query_by_id(query_id) == IF \E i \in 1..Len(query_history) : query_history[i].id = query_id THEN <<query_history[CHOOSE i \in 1..Len(query_history) : query_history[i].id = query_id /\ \A j \in 1..(i - 1) : query_history[j].id # query_id]>> ELSE <<>>

\* SessionService.get_feedback_data: <<>> is None
get_feedback_data(query_id) == IF query_id \in DOMAIN feedback_data THEN <<feedback_data[query_id]>> ELSE <<>>

\* the feedback types counted by get_history_statistics
feedback_types == [t \in {feedback_data[k].type : k \in DOMAIN feedback_data} |-> Cardinality({k \in DOMAIN feedback_data : feedback_data[k].type = t})]

\* SessionService.get_history_statistics: for an authenticated session the call of
\* get_user_uid raises before the Firestore statistics are asked for
get_history_statistics == IF is_authenticated /\ get_user_uid.kind = "raise" THEN get_user_uid ELSE Return([total_queries |-> Len(query_history), total_feedback |-> Cardinality(DOMAIN feedback_data), feedback_types |-> feedback_types, last_query_time |-> IF query_history # <<>> THEN <<isoformat(DateTime(MaxOf({query_history[i].timestamp.t : i \in 1..Len(query_history)})))>> ELSE <<>>, current_query_id |-> current_query_id])

\* SessionService.export_history(format)
export_history(format) == IF lower(format) = <<"j", "s", "o", "n">> THEN (IF get_history_statistics.kind = "raise" THEN get_history_statistics ELSE Return([query_history |-> [i \in 1..Len(query_history) |-> to_dict(query_history[i])], feedback_data |-> feedback_data, statistics |-> get_history_statistics.val, export_timestamp |-> isoformat(DateTime(clock))])) ELSE Raise("ValueError")

\* the wall clock advances
Tick ==
  /\ clock < MaxClock
  /\ clock' = clock + 1
  /\ UNCHANGED <<firebase_vars, ai_vars, session_state, auth, accounts, query_history, current_query_id, feedback_data, db, firestore, last>>

\* save_query_history that reads the id after it has advanced the counter
save_query_history_id_after(query, response, file_name) ==
  LET query_id == current_query_id + 1
      called == [op |-> "save_query_history", query |-> query, response |-> response, file_name |-> file_name]
  IN /\ Len(query_history) < MaxHistory
     /\ current_query_id < MaxQueryId
     /\ query_history' = Append(query_history, QueryHistory(query_id, query, response, file_name, DateTime(clock), None))
     /\ current_query_id' = current_query_id + 1
     /\ last' = called @@ [ret |-> IF is_authenticated THEN get_user_uid ELSE Return(query_id)]
     /\ UNCHANGED <<firebase_vars, ai_vars, session_state, auth, accounts, feedback_data, db, firestore, clock>>

\* SessionService.save_query_history: the local entry is appended first, then the
\* authenticated branch asks the auth service for the uid
save_query_history(query, response, file_name) ==
  LET query_id == current_query_id
      uid == get_user_uid
      called == [op |-> "save_query_history", query |-> query, response |-> response, file_name |-> file_name]
  IN /\ Len(query_history) < MaxHistory
     /\ current_query_id < MaxQueryId
     /\ query_history' = Append(query_history, QueryHistory(query_id, query, response, file_name, DateTime(clock), None))
     /\ current_query_id' = current_query_id + 1
     /\ IF is_authenticated /\ uid.kind = "raise"
        THEN firestore' = firestore /\ last' = called @@ [ret |-> uid]
        ELSE IF is_authenticated /\ uid.val # None
        THEN \E doc_id \in DocIds, fail \in BOOLEAN :
               /\ doc_id \notin {d.id : d \in Collection(firestore, uid.val)}
               /\ firestore' = save_query(firestore, uid.val, query, response, file_name, doc_id, fail).store
               /\ last' = called @@ [ret |-> Return(query_id)]
        ELSE firestore' = firestore /\ last' = called @@ [ret |-> Return(query_id)]
     /\ UNCHANGED <<firebase_vars, ai_vars, session_state, auth, accounts, feedback_data, db, clock>>

\* submit_feedback that marks every entry of the history
submit_feedback_on_all(query_id, feedback_type, comment) ==
  /\ feedback_data' = [k \in DOMAIN feedback_data \cup {query_id} |-> IF k = query_id THEN [type |-> feedback_type, comment |-> comment, timestamp |-> DateTime(clock)] ELSE feedback_data[k]]
  /\ query_history' = [i \in 1..Len(query_history) |-> [query_history[i] EXCEPT !.feedback = feedback_type]]
  /\ last' = [op |-> "submit_feedback", query_id |-> query_id, ret |-> Return(~(is_authenticated /\ get_user_uid.kind = "raise"))]
  /\ UNCHANGED <<firebase_vars, ai_vars, session_state, auth, accounts, current_query_id, db, firestore, clock>>

\* SessionService.submit_feedback: feedback_data is written first; get_query_by_id
\* raises for an authenticated session, which the except branch turns into False
submit_feedback(query_id, feedback_type, comment) ==
  LET recorded == [k \in DOMAIN feedback_data \cup {query_id} |-> IF k = query_id THEN [type |-> feedback_type, comment |-> comment, timestamp |-> DateTime(clock)] ELSE feedback_data[k]]
      raised == is_authenticated /\ get_user_uid.kind = "raise"
      hit == {i \in 1..Len(query_history) : query_history[i].id = query_id}
      first == CHOOSE i \in hit : \A j \in hit : i <= j
  IN /\ feedback_data' = recorded
     /\ query_history' = IF ~raised /\ hit # {} THEN [query_history EXCEPT ![first].feedback = feedback_type] ELSE query_history
     /\ last' = [op |-> "submit_feedback", query_id |-> query_id, ret |-> Return(~raised)]
     /\ UNCHANGED <<firebase_vars, ai_vars, session_state, auth, accounts, current_query_id, db, firestore, clock>>

\* clear_history that leaves the id counter where it was
clear_history_keeping_id ==
  /\ query_history' = <<>>
  /\ feedback_data' = <<>>
  /\ current_query_id' = current_query_id
  /\ last' = [op |-> "clear_history", cleared |-> Len(query_history) + Cardinality(DOMAIN feedback_data), ret |-> Return(~(is_authenticated /\ get_user_uid.kind = "raise"))]
  /\ UNCHANGED <<firebase_vars, ai_vars, session_state, auth, accounts, db, firestore, clock>>

\* SessionService.clear_history: the local state is cleared before the authenticated
\* branch raises into the except branch
clear_history ==
  /\ query_history' = <<>>
  /\ feedback_data' = <<>>
  /\ current_query_id' = 0
  /\ last' = [op |-> "clear_history", cleared |-> Len(query_history) + Cardinality(DOMAIN feedback_data), ret |-> Return(~(is_authenticated /\ get_user_uid.kind = "raise"))]
  /\ UNCHANGED <<firebase_vars, ai_vars, session_state, auth, accounts, db, firestore, clock>>

\* the keys import_history reads from an entry with query_data[...]
EntryKeys == {"id", "query", "response", "file_name", "timestamp"}

\* SessionService.import_history(data); how names where data came from
import_history(data, how) ==
  LET has_q == "query_history" \in DOMAIN data
      qs == IF has_q THEN data.query_history ELSE <<>>
      bad == {i \in 1..Len(qs) : ~(EntryKeys \subseteq DOMAIN qs[i]) \/ fromisoformat(qs[i].timestamp).kind = "raise"}
      n == IF bad = {} THEN Len(qs) ELSE (CHOOSE i \in bad : \A j \in bad : i <= j) - 1
      built == [i \in 1..n |-> QueryHistory(qs[i].id, qs[i].query, qs[i].response, qs[i].file_name, fromisoformat(qs[i].timestamp).val, IF "feedback" \in DOMAIN qs[i] THEN qs[i].feedback ELSE None)]
      failed == bad # {}
  IN /\ query_history' = IF has_q THEN built ELSE query_history
     /\ current_query_id' = IF has_q /\ ~failed THEN (IF built # <<>> THEN MaxOf({built[i].id : i \in 1..Len(built)}) + 1 ELSE 0) ELSE current_query_id
     /\ feedback_data' = IF ~failed /\ "feedback_data" \in DOMAIN data THEN data.feedback_data ELSE feedback_data
     /\ last' = [op |-> "import_history", how |-> how, ret |-> Return(~failed)]
     /\ UNCHANGED <<firebase_vars, ai_vars, session_state, auth, accounts, db, firestore, clock>>

\* import_history(export_history('json')): when the export raises nothing is imported
ImportExported ==
  LET exported == export_history(<<"j", "s", "o", "n">>)
  IN IF exported.kind = "raise"
     THEN last' = [op |-> "import_history", how |-> "exported", ret |-> exported] /\ UNCHANGED <<firebase_vars, ai_vars, session_state, auth, accounts, query_history, current_query_id, feedback_data, db, firestore, clock>>
     ELSE import_history(exported.val, "exported")

\* documents a JSON file can hold: timestamps are strings there
JsonEntry(id, t) == [id |-> id, query |-> <<"a">>, response |-> <<"b">>, file_name |-> "sales.csv", timestamp |-> isoformat(DateTime(t)), feedback |-> None]
JsonDocuments == {[export_timestamp |-> isoformat(DateTime(0))], [query_history |-> <<>>], [query_history |-> <<JsonEntry(1, 0)>>], [query_history |-> <<JsonEntry(0, 0), [id |-> 1, query |-> <<"a">>]>>]}

\* import_history(json.load(file)) as the history page calls it
ImportJson == \E data \in JsonDocuments : import_history(data, "json")

\* FirestoreQueryService's methods called directly, as the history page does
SaveQuery(user_uid, query, response, file_name, doc_id, fail) ==
  /\ Cardinality(firestore) < MaxDocs
  /\ doc_id \notin {d.id : d \in Collection(firestore, user_uid)}
  /\ firestore' = save_query(firestore, user_uid, query, response, file_name, doc_id, fail).store
  /\ last' = [op |-> "save_query", uid |-> user_uid, ret |-> save_query(firestore, user_uid, query, response, file_name, doc_id, fail).ret]
  /\ UNCHANGED <<firebase_vars, ai_vars, session_state, auth, accounts, query_history, current_query_id, feedback_data, db, clock>>

UpdateQueryFeedback(user_uid, query_id, feedback, fail) ==
  /\ firestore' = update_query_feedback(firestore, user_uid, query_id, feedback, fail).store
  /\ last' = [op |-> "update_query_feedback", uid |-> user_uid, ret |-> update_query_feedback(firestore, user_uid, query_id, feedback, fail).ret]
  /\ UNCHANGED <<firebase_vars, ai_vars, session_state, auth, accounts, query_history, current_query_id, feedback_data, db, clock>>

DeleteQuery(user_uid, query_id, fail) ==
  /\ firestore' = delete_query(firestore, user_uid, query_id, fail).store
  /\ last' = [op |-> "delete_query", uid |-> user_uid, ret |-> delete_query(firestore, user_uid, query_id, fail).ret]
  /\ UNCHANGED <<firebase_vars, ai_vars, session_state, auth, accounts, query_history, current_query_id, feedback_data, db, clock>>

ClearUserQueries(user_uid, fail, gone) ==
  /\ firestore' = clear_user_queries(firestore, user_uid, fail, gone).store
  /\ last' = [op |-> "clear_user_queries", uid |-> user_uid, ret |-> clear_user_queries(firestore, user_uid, fail, gone).ret]
  /\ UNCHANGED <<firebase_vars, ai_vars, session_state, auth, accounts, query_history, current_query_id, feedback_data, db, clock>>

(***************************************************************************)
(* FileService (src/services/file_service.py) and the upload component     *)
(* (src/ui/components/file_upload.py). An uploaded file is a record: its    *)
(* name, its size in bytes, and content, what the pandas readers and the    *)
(* statistics make of its bytes.                                           *)
(***************************************************************************)
\* the file extensions, as texts
CSV == <<".", "c", "s", "v">>
XLSX == <<".", "x", "l", "s", "x">>
XLS == <<".", "x", "l", "s">>

\* FileService.supported_formats
supported_formats == <<CSV, XLSX, XLS>>

\* FileService.max_file_size
max_file_size == 200 * 1024 * 1024

\* the names of uploaded files
FileNamesUploaded == {<<"a", ".", "c", "s", "v">>, <<"b", ".", "x", "l", "s", "x">>, <<"c", ".", "x", "l", "s">>, <<"a", ".", "C", "S", "V">>, <<"a", ".", "t", "x", "t">>, <<"x", "l", "s">>}

\* the sizes of uploaded files, around the limit
FileSizes == {4096, 200 * 1024 * 1024, 200 * 1024 * 1024 + 1}

\* what reading and analysing the bytes gives: a frame with rows, an empty frame,
\* an exception of the reader, an exception of the statistics
FileContents == {"rows", "empty", "unreadable", "bad_statistics"}

UploadedFiles == [name : FileNamesUploaded, size : FileSizes, content : FileContents]

\* a Python dict as a function; {} is the empty function
EmptyDict == <<>>
Put(d, key, value) == [k \in DOMAIN d \cup {key} |-> IF k = key THEN value ELSE d[k]]

\* validate_file with the size test off by one
validate_file_below_limit(file) == IF file.size >= max_file_size THEN FALSE ELSE IF ~(\E i \in 1..Len(supported_formats) : EndsWith(file.name, supported_formats[i])) THEN FALSE ELSE TRUE

\* FileService.validate_file
validate_file(file) == IF file.size > max_file_size THEN FALSE ELSE IF ~(\E i \in 1..Len(supported_formats) : EndsWith(file.name, supported_formats[i])) THEN FALSE ELSE TRUE

\* FileService._read_csv and _read_excel: the frame, or None when the reader raised
read_frame(file) == IF file.content = "unreadable" THEN "None" ELSE IF file.content = "empty" THEN "empty" ELSE "frame"

\* FileService._get_file_type
get_file_type(filename) == IF EndsWith(filename, CSV) THEN "csv" ELSE IF EndsWith(filename, XLSX) \/ EndsWith(filename, XLS) THEN "excel" ELSE "unknown"

\* the ProcessedFile built from a file that was read
ProcessedFile(file) == [file_info |-> [name |-> file.name, size |-> file.size, type |-> get_file_type(file.name)], data_json |-> file.content]

\* the try block of process_file: ret is what it returns or raises (<<>> for None,
\* <<p>> for a ProcessedFile), read says whether a reader was given the file
process_file_try(file) == IF ~validate_file(file) THEN [ret |-> Return(Absent), read |-> FALSE] ELSE IF ~(EndsWith(file.name, CSV) \/ EndsWith(file.name, XLSX) \/ EndsWith(file.name, XLS)) THEN [ret |-> Return(Absent), read |-> FALSE] ELSE IF read_frame(file) # "frame" THEN [ret |-> Return(Absent), read |-> TRUE] ELSE IF file.content = "bad_statistics" THEN [ret |-> Raise("ValueError"), read |-> TRUE] ELSE [ret |-> Return(<<ProcessedFile(file)>>), read |-> TRUE]

\* process_file without its except clause
process_file_unguarded(file) == process_file_try(file)

\* FileService.process_file: except Exception returns None
process_file(file) == LET tried == process_file_try(file) IN IF tried.ret.kind = "raise" THEN [ret |-> Return(Absent), read |-> tried.read] ELSE tried

\* the loop of process_files from file i on, with the dict built so far
RECURSIVE process_files_from(_, _, _)
process_files_from(files, i, processed_files) == IF i > Len(files) THEN Return(processed_files) ELSE LET processed_file == process_file(files[i]).ret IN IF processed_file.kind = "raise" THEN processed_file ELSE IF processed_file.val # Absent THEN process_files_from(files, i + 1, Put(processed_files, files[i].name, processed_file.val[1])) ELSE process_files_from(files, i + 1, processed_files)

\* FileService.process_files
process_files(files) == process_files_from(files, 1, EmptyDict)

\* the files process_files gave to a reader
files_read(files) == {i \in 1..Len(files) : process_file(files[i]).read}

\* _check_authentication that lets everybody upload
check_authentication_open(auth_modal) == TRUE

\* FileUploadComponent._check_authentication; auth_modal says whether the component has one
check_authentication(auth_modal) == IF auth_modal THEN (IF ~auth THEN TRUE ELSE is_authenticated) ELSE TRUE

\* FileUploadComponent.render with the files in the uploader: what it returns and
\* whether it called process_files
render_result(auth_modal, uploaded_files) == IF ~check_authentication(auth_modal) THEN [ret |-> Return(EmptyDict), called |-> FALSE] ELSE IF uploaded_files # <<>> THEN [ret |-> process_files(uploaded_files), called |-> TRUE] ELSE [ret |-> Return(EmptyDict), called |-> FALSE]

service_vars == <<session_state, auth, accounts, query_history, current_query_id, feedback_data, db, firestore, clock>>

validate_file_call(file) ==
  /\ last' = [op |-> "validate_file", file |-> file, ret |-> Return(validate_file(file))]
  /\ UNCHANGED <<firebase_vars, service_vars, ai_vars>>

process_file_call(file) ==
  LET processed_file == process_file(file)
  IN /\ last' = [op |-> "process_file", file |-> file, ret |-> processed_file.ret, read |-> processed_file.read]
     /\ UNCHANGED <<firebase_vars, service_vars, ai_vars>>

process_files_call(files) ==
  /\ last' = [op |-> "process_files", files |-> files, ret |-> process_files(files), read |-> files_read(files)]
  /\ UNCHANGED <<firebase_vars, service_vars, ai_vars>>

render(auth_modal, uploaded_files) ==
  /\ last' = [op |-> "render", auth_modal |-> auth_modal, files |-> uploaded_files, ret |-> render_result(auth_modal, uploaded_files).ret, called |-> render_result(auth_modal, uploaded_files).called]
  /\ UNCHANGED <<firebase_vars, service_vars, ai_vars>>

(***************************************************************************)
(* AIService (src/services/ai_service.py) with OpenAIClient and             *)
(* ConversationMemory (src/services/ai/openai_client.py) and the PandasAI   *)
(* processor (src/services/ai/pandasai_processor.py). A str is a sequence   *)
(* of pieces of text, an Optional value is <<>> for None or <<v>>; chat and *)
(* api are what the PandasAI chat and the OpenAI API do with a call.        *)
(***************************************************************************)
\* dict.get(key, default)
get(d, key, default) == IF key \in DOMAIN d THEN d[key] ELSE default

\* ConversationMemory.max_history
max_history == 10

\* add_message that keeps the oldest messages when it trims
add_message_keeping_oldest(conversations, session_id, role, content) == LET messages == Append(get(conversations, session_id, <<>>), [role |-> role, content |-> content, timestamp |-> DateTime(clock)]) IN Put(conversations, session_id, IF Len(messages) > max_history THEN SubSeq(messages, 1, max_history) ELSE messages)

\* ConversationMemory.add_message
add_message(conversations, session_id, role, content) == LET messages == Append(get(conversations, session_id, <<>>), [role |-> role, content |-> content, timestamp |-> DateTime(clock)]) IN Put(conversations, session_id, IF Len(messages) > max_history THEN SubSeq(messages, Len(messages) - max_history + 1, Len(messages)) ELSE messages)

\* ConversationMemory.get_conversation
get_conversation(conversations, session_id) == get(conversations, session_id, <<>>)

\* ConversationMemory(): a memory with no conversation
ConversationMemory == [max_history |-> max_history, conversations |-> EmptyDict]

\* the data_keywords of _is_data_query
data_keywords == <<<<"a", "v", "e", "r", "a", "g", "e">>, <<"m", "e", "a", "n">>, <<"s", "u", "m">>, <<"c", "o", "u", "n", "t">>, <<"m", "a", "x">>, <<"m", "i", "n">>, <<"m", "e", "d", "i", "a", "n">>, <<"c", "o", "r", "r", "e", "l", "a", "t", "i", "o", "n">>, <<"g", "r", "o", "u", "p", " ", "b", "y">>, <<"f", "i", "l", "t", "e", "r">>, <<"s", "o", "r", "t">>, <<"t", "o", "p">>, <<"b", "o", "t", "t", "o", "m">>, <<"t", "r", "e", "n", "d">>, <<"p", "a", "t", "t", "e", "r", "n">>, <<"d", "i", "s", "t", "r", "i", "b", "u", "t", "i", "o", "n">>, <<"o", "u", "t", "l", "i", "e", "r">>, <<"m", "i", "s", "s", "i", "n", "g">>, <<"c", "o", "m", "p", "a", "r", "e">>, <<"d", "i", "f", "f", "e", "r", "e", "n", "c", "e">>, <<"p", "e", "r", "c", "e", "n", "t", "a", "g", "e">>, <<"r", "a", "t", "i", "o">>, <<"s", "t", "a", "t", "i", "s", "t", "i", "c", "s">>>>

\* AIService._is_data_query: question.lower() raises for None
is_data_query(question) == IF question = Absent THEN Raise("AttributeError") ELSE LET question_lower == lower(question[1]) IN Return(\E i \in 1..Len(data_keywords) : Contains(data_keywords[i], question_lower))

\* AIService._convert_processed_files_for_ai: one DataFrame for each file
convert_processed_files_for_ai(processed_files) == [file_name \in DOMAIN processed_files |-> [rows |-> processed_files[file_name].total_rows]]

\* str(e) of the exceptions of the libraries
str_of(e) == IF e = "APIConnectionError" THEN <<"Connection error.">> ELSE IF e = "AttributeError" THEN <<"'NoneType' object has no attribute 'lower'">> ELSE IF e = "TypeError" THEN <<"'<' not supported between instances of 'NoneType' and 'int'">> ELSE IF e = "NoCodeFoundError" THEN <<"No code found in the response">> ELSE <<e>>

\* PandasAIEnhancedProcessor.process_natural_language_query
process_natural_language_query(query, dataframes, chat) == IF pandasai_processor # "ready" THEN [success |-> FALSE, error |-> <<"PandasAI not available">>, answer |-> <<"PandasAI is not available. Please install it with: pip install pandasai">>] ELSE IF dataframes = EmptyDict THEN [success |-> FALSE, error |-> <<"No dataframes provided">>, answer |-> <<"No data available for analysis.">>] ELSE IF chat = "result" THEN [success |-> TRUE, answer |-> <<"42">>, method |-> "pandasai", dataframes_used |-> Cardinality(DOMAIN dataframes)] ELSE [success |-> FALSE, error |-> str_of("NoCodeFoundError"), answer |-> <<"Error processing query with PandasAI: ">> \o str_of("NoCodeFoundError")]

\* AIService._process_with_pandasai: None without a processor
process_with_pandasai(request, files_for_processing, chat) == IF pandasai_processor = "None" THEN Absent ELSE <<process_natural_language_query(request.question, files_for_processing, chat)>>

\* AIService._build_data_context: _analyze_question_type lowers the question
build_data_context(processed_files, question) == IF question = Absent THEN Raise("AttributeError") ELSE Return([total_datasets |-> Cardinality(DOMAIN processed_files), analysis_scope |-> IF Cardinality(DOMAIN processed_files) = 1 THEN "single_dataset" ELSE "multi_dataset"])

\* OpenAIClient.query_openai_with_data_context: the dict it returns and the
\* conversations of its memory afterwards
query_openai_with_data_context(question, data_context, session_id, api) == LET user_message == [data_context |-> data_context, question |-> question] IN IF api = "answer" THEN [response |-> [success |-> TRUE, answer |-> <<"The total is 42.">>, tokens_used |-> 100, model |-> "gpt-4o"], memory |-> add_message(add_message(conversation_memory, session_id, "user", user_message), session_id, "assistant", <<"The total is 42.">>)] ELSE [response |-> [success |-> FALSE, error |-> str_of("APIConnectionError"), answer |-> <<"Sorry, I encountered an error while processing your request.">>], memory |-> conversation_memory]

\* AIService._analyze_data_quality: the comparisons raise for a file without scores
analyze_data_quality(processed_files) == IF \E file_name \in DOMAIN processed_files : processed_files[file_name].completeness_score = Absent THEN Raise("TypeError") ELSE Return([overall_score |-> IF processed_files = EmptyDict THEN 0 ELSE 100, issues |-> <<>>])

\* AIService._enhance_response
enhance_response(openai_response, processed_files, pandasai_response) == IF analyze_data_quality(processed_files).kind = "raise" THEN analyze_data_quality(processed_files) ELSE Return([success |-> openai_response.success, answer |-> openai_response.answer, pandasai_results |-> IF pandasai_response # Absent THEN <<[analysis |-> pandasai_response[1]]>> ELSE Absent, data_quality_insights |-> analyze_data_quality(processed_files).val])

\* the QueryResponse dataclass, with the fields the files' insights do not fill
QueryResponse(success, answer, error, error_type, pandasai_results) == [success |-> success, answer |-> answer, error |-> error, error_type |-> error_type, pandasai_results |-> pandasai_results]

\* the try block of process_query: what it returns or raises, the two memories
\* afterwards and the backends it called
process_query_try(request, processed_files, chat, api) ==
  LET sessions == IF request.session_id \in DOMAIN conversation_sessions THEN conversation_sessions ELSE Put(conversation_sessions, request.session_id, ConversationMemory)
      files_for_processing == convert_processed_files_for_ai(processed_files)
      data_query == IF pandasai_processor # "None" THEN is_data_query(request.question) ELSE Return(FALSE)
      use_pandasai == data_query.kind = "return" /\ data_query.val
      pandasai_response == IF use_pandasai THEN process_with_pandasai(request, files_for_processing, chat) ELSE Absent
      called_pandasai == IF use_pandasai /\ pandasai_processor = "ready" /\ files_for_processing # EmptyDict THEN {"pandasai"} ELSE {}
      data_context == build_data_context(processed_files, request.question)
      openai == query_openai_with_data_context(request.question, data_context.val, request.session_id, api)
      enhanced_response == enhance_response(openai.response, processed_files, pandasai_response)
  IN IF ~openai_client THEN [ret |-> Return(QueryResponse(FALSE, Absent, <<<<"AI service not available. Please check your OpenAI API key.">>>>, <<"ai_unavailable">>, Absent)), sessions |-> conversation_sessions, memory |-> conversation_memory, called |-> {}]
     ELSE IF data_query.kind = "raise" THEN [ret |-> data_query, sessions |-> sessions, memory |-> conversation_memory, called |-> {}]
     ELSE IF data_context.kind = "raise" THEN [ret |-> data_context, sessions |-> sessions, memory |-> conversation_memory, called |-> called_pandasai]
     ELSE IF ~get(openai.response, "success", FALSE) THEN [ret |-> Return(QueryResponse(FALSE, Absent, <<get(openai.response, "error", <<"Unknown error">>)>>, <<get(openai.response, "error_type", "unknown")>>, Absent)), sessions |-> sessions, memory |-> openai.memory, called |-> called_pandasai \cup {"openai"}]
     ELSE IF enhanced_response.kind = "raise" THEN [ret |-> enhanced_response, sessions |-> sessions, memory |-> openai.memory, called |-> called_pandasai \cup {"openai"}]
     ELSE [ret |-> Return(QueryResponse(TRUE, <<get(enhanced_response.val, "answer", <<>>)>>, Absent, Absent, get(enhanced_response.val, "pandasai_results", Absent))), sessions |-> sessions, memory |-> openai.memory, called |-> called_pandasai \cup {"openai"}]

\* process_query without its except clause
process_query_unguarded(request, processed_files, chat, api) == process_query_try(request, processed_files, chat, api)

\* AIService.process_query: except Exception returns a processing_error response
process_query(request, processed_files, chat, api) == LET try == process_query_try(request, processed_files, chat, api) IN IF try.ret.kind = "raise" THEN [try EXCEPT !.ret = Return(QueryResponse(FALSE, Absent, <<<<"An unexpected error occurred: ">> \o str_of(try.ret.val)>>, <<"processing_error">>, Absent))] ELSE try

\* AIService.get_session_conversation: the conversation of the ConversationMemory that
\* process_query put into conversation_sessions for the session
get_session_conversation(session_id) == IF session_id \in DOMAIN conversation_sessions THEN Return(get_conversation(conversation_sessions[session_id].conversations, session_id)) ELSE Return(<<>>)

\* AIService.clear_session: calls clear_history() of the session's ConversationMemory,
\* a method the class does not have; nothing catches the AttributeError
clear_session(session_id) ==
  /\ last' = [op |-> "clear_session", session_id |-> session_id, ret |-> IF session_id \in DOMAIN conversation_sessions THEN Raise("AttributeError") ELSE Return(None)]
  /\ UNCHANGED <<firebase_vars, service_vars, ai_vars>>

\* the messages the OpenAI client remembers
stored_messages == LET RECURSIVE Sum(_) Sum(S) == IF S = {} THEN 0 ELSE LET x == CHOOSE x \in S : TRUE IN Len(conversation_memory[x]) + Sum(S \ {x}) IN Sum(DOMAIN conversation_memory)

process_query_call(request, processed_files, chat, api) ==
  LET call == process_query(request, processed_files, chat, api)
  IN /\ stored_messages < 2 * MaxExchanges
     /\ conversation_sessions' = call.sessions
     /\ conversation_memory' = call.memory
     /\ last' = [op |-> "process_query", request |-> request, processed_files |-> processed_files, chat |-> chat, api |-> api, ret |-> call.ret, called |-> call.called]
     /\ UNCHANGED <<firebase_vars, service_vars, openai_client, pandasai_processor>>

(***************************************************************************)
(* FirebaseConfig (src/services/firebase_config.py). sdk and client are    *)
(* what firebase_admin (credentials.Certificate, initialize_app) and       *)
(* firestore.client() do in a call: "ok" or "raise".                       *)
(***************************************************************************)
\* the environment of a call: GOOGLE_APPLICATION_CREDENTIALS set, the FIREBASE_*
\* variables of the required fields set, or neither
Environments == {"GOOGLE_APPLICATION_CREDENTIALS", "FIREBASE_PROJECT_ID", "unset"}

\* the service_account_path argument and the files that exist
ServiceAccountPaths == {Absent, <<"key.json">>, <<"missing.json">>}
ExistingFiles == {"key.json", "serviceAccountKey.json"}

\* cls._app = firebase_admin.initialize_app(...); cls._db = firestore.client(): the
\* default app can be created once, _app is assigned before the client is asked for
initialize_app_and_client(app, client_db, sdk, client) ==
  IF app # Absent \/ sdk = "raise" THEN [app |-> app, db |-> client_db, ret |-> Raise("ValueError")]
  ELSE IF client = "raise" THEN [app |-> <<"[DEFAULT]">>, db |-> client_db, ret |-> Raise("DefaultCredentialsError")]
  ELSE [app |-> <<"[DEFAULT]">>, db |-> <<"client">>, ret |-> Return(TRUE)]

\* FirebaseConfig._initialize_with_env: except Exception returns False
initialize_with_env(env, sdk, client) ==
  LET made == initialize_app_and_client(_app, _db, sdk, client)
  IN IF env = "unset" THEN [app |-> _app, db |-> _db, ret |-> Return(FALSE)]
     ELSE IF made.ret.kind = "raise" THEN [made EXCEPT !.ret = Return(FALSE)]
     ELSE made

\* FirebaseConfig._find_service_account_file
find_service_account_file(found) == IF found THEN <<"serviceAccountKey.json">> ELSE Absent

\* FirebaseConfig.initialize: except Exception returns False
initialize_from(service_account_path, found, env, sdk, client) ==
  LET from_env == initialize_with_env(env, sdk, client)
      path == IF service_account_path # Absent THEN service_account_path ELSE find_service_account_file(found)
      made == initialize_app_and_client(from_env.app, from_env.db, sdk, client)
  IN IF _app # Absent THEN [app |-> _app, db |-> _db, ret |-> Return(TRUE)]
     ELSE IF from_env.ret.val THEN from_env
     ELSE IF path = Absent \/ path[1] \notin ExistingFiles THEN from_env
     ELSE IF made.ret.kind = "raise" THEN [made EXCEPT !.ret = Return(FALSE)]
     ELSE made

\* FirebaseConfig.get_firestore_client
get_firestore_client == _db

\* FirebaseConfig.is_initialized
is_initialized == _app # Absent /\ _db # Absent

initialize(service_account_path, found, env, sdk, client) ==
  LET call == initialize_from(service_account_path, found, env, sdk, client)
  IN /\ _app' = call.app
     /\ _db' = call.db
     /\ last' = [op |-> "initialize", service_account_path |-> service_account_path, found |-> found, env |-> env, sdk |-> sdk, client |-> client, ret |-> call.ret]
     /\ UNCHANGED <<service_vars, ai_vars>>

\* AuthService.validate_password: (is_valid, error_message), '' is <<>>
validate_password(password) ==
  IF Len(password) < 6 THEN <<FALSE, <<"Password must be at least 6 characters long">>>>
  ELSE IF Len(password) > 128 THEN <<FALSE, <<"Password must be less than 128 characters">>>>
  ELSE <<TRUE, <<>>>>

\* FirebaseAuthService._validate_password
validate_password_firebase(password) ==
  IF password = <<>> THEN <<FALSE, <<"Password is required">>>>
  ELSE IF Len(password) < 6 THEN <<FALSE, <<"Password must be at least 6 characters long">>>>
  ELSE IF Len(password) > 128 THEN <<FALSE, <<"Password must be less than 128 characters">>>>
  ELSE <<TRUE, <<>>>>

\* a call of either method
validate_password_call(service, password) ==
  /\ last' = [op |-> "validate_password", service |-> service, password |-> password, ret |-> Return(IF service = "AuthService" THEN validate_password(password) ELSE validate_password_firebase(password))]
  /\ UNCHANGED <<service_vars, ai_vars, firebase_vars>>

(***************************************************************************)
(* DataService.generate_visualizations (src/services/data_service.py) and  *)
(* the column lists of ProcessedFile (src/models/file_models.py). A dict   *)
(* is the sequence of its items in insertion order.                        *)
(***************************************************************************)
\* ProcessedFile.get_numeric_columns: stats.get('type', '') contains 'int' or 'float'
get_numeric_columns(column_statistics) == LET numeric == SelectSeq(column_statistics, LAMBDA c : Contains(<<"i", "n", "t">>, c.type) \/ Contains(<<"f", "l", "o", "a", "t">>, c.type)) IN [i \in 1..Len(numeric) |-> numeric[i].col]

\* ProcessedFile.get_categorical_columns: the type is 'object'
get_categorical_columns(column_statistics) == LET categorical == SelectSeq(column_statistics, LAMBDA c : c.type = <<"o", "b", "j", "e", "c", "t">>) IN [i \in 1..Len(categorical) |-> categorical[i].col]

\* _generate_correlation_code, _generate_distribution_code, _generate_categorical_code:
\* the template filled with the columns
generate_correlation_code(numeric_cols) == <<"# Correlation analysis", numeric_cols>>
generate_distribution_code(numeric_cols) == <<"# Distribution analysis", numeric_cols, IF 3 < Len(numeric_cols) THEN 3 ELSE Len(numeric_cols)>>
generate_categorical_code(categorical_cols) == <<"# Categorical analysis", IF 2 < Len(categorical_cols) THEN 2 ELSE Len(categorical_cols)>>

\* the body of the loop of generate_visualizations for one file
visualizations_of(file_name, processed_file, question_lower) ==
  LET numeric_cols == get_numeric_columns(processed_file.column_statistics)
      categorical_cols == get_categorical_columns(processed_file.column_statistics)
  IN (IF Contains(<<"c", "o", "r", "r", "e", "l", "a", "t", "i", "o", "n">>, question_lower) /\ Len(numeric_cols) >= 2
      THEN <<[type |-> "heatmap", title |-> <<"Correlation Matrix - ", file_name>>, description |-> "Heatmap showing correlations between numeric variables", columns |-> SliceTo(numeric_cols, 5), code |-> generate_correlation_code(SliceTo(numeric_cols, 5))]>> ELSE <<>>)
     \o (IF (Contains(<<"d", "i", "s", "t", "r", "i", "b", "u", "t", "i", "o", "n">>, question_lower) \/ Contains(<<"p", "a", "t", "t", "e", "r", "n">>, question_lower)) /\ numeric_cols # <<>>
      THEN <<[type |-> "histogram", title |-> <<"Distribution Analysis - ", file_name>>, description |-> "Histograms showing distributions of numeric variables", columns |-> SliceTo(numeric_cols, 3), code |-> generate_distribution_code(SliceTo(numeric_cols, 3))]>> ELSE <<>>)
     \o (IF categorical_cols # <<>> /\ (Contains(<<"c", "a", "t", "e", "g", "o", "r", "y">>, question_lower) \/ Contains(<<"c", "o", "u", "n", "t">>, question_lower))
      THEN <<[type |-> "bar_chart", title |-> <<"Categorical Analysis - ", file_name>>, description |-> "Bar chart showing value counts for categorical variables", columns |-> SliceTo(categorical_cols, 2), code |-> generate_categorical_code(SliceTo(categorical_cols, 2))]>> ELSE <<>>)

\* the loop over processed_files.items()
RECURSIVE visualizations_from(_, _, _)
visualizations_from(items, i, question_lower) == IF i > Len(items) THEN <<>> ELSE visualizations_of(items[i].file_name, items[i].processed_file, question_lower) \o visualizations_from(items, i + 1, question_lower)

\* generate_visualizations without the limit of the return
generate_visualizations_unlimited(processed_files, user_question) == IF processed_files = <<>> THEN <<>> ELSE visualizations_from(processed_files, 1, lower(user_question))

\* DataService.generate_visualizations
generate_visualizations(processed_files, user_question) == IF processed_files = <<>> THEN <<>> ELSE LET question_lower == lower(user_question) IN SliceTo(visualizations_from(processed_files, 1, question_lower), 3)

generate_visualizations_call(processed_files, user_question) ==
  /\ last' = [op |-> "generate_visualizations", processed_files |-> processed_files, user_question |-> user_question, ret |-> Return(generate_visualizations(processed_files, user_question))]
  /\ UNCHANGED <<service_vars, ai_vars, firebase_vars>>

(***************************************************************************)
(* Specifications.                                                         *)
(***************************************************************************)
\* the state after MainPage built its services: nobody is signed in, the history is
\* empty; whether Firebase is configured is the environment's choice
InitServicesStoring(store) ==
  /\ session_state = [user |-> Absent, authenticated |-> Absent]
  /\ auth \in BOOLEAN
  /\ accounts = [e \in {"ann@x.io", "bob@x.io"} |-> "secret1"]
  /\ query_history = <<>>
  /\ current_query_id = 0
  /\ feedback_data = <<>>
  /\ db \in BOOLEAN
  /\ firestore = store
  /\ clock = 0
  /\ _app = IF db THEN <<"[DEFAULT]">> ELSE Absent
  /\ _db = IF db THEN <<"client">> ELSE Absent
  /\ last = [op |-> "init"]

\* no query is stored yet
InitServices == InitServicesStoring({})

\* AIService.__init__ and _initialize_ai_components: with an API key both components
\* are built, without one neither; PandasAI may fail to import
InitAIService(keys) ==
  /\ openai_client \in keys
  /\ pandasai_processor \in (IF openai_client THEN {"ready", "not_available"} ELSE {"None"})
  /\ conversation_sessions = EmptyDict
  /\ conversation_memory = EmptyDict

\* the page's services, no OpenAI API key configured
Init == InitServices /\ InitAIService({FALSE})

SignUp == \E email \in Emails \cup {"not-an-email"}, password \in {"secret1", "weak"}, net \in {"ok", "error", "partial"} : sign_up(email, password, net)

SignIn == \E email \in Emails \cup {"not-an-email"}, password \in Passwords, net \in {"ok", "error", "partial", "disabled"} : sign_in(email, password, net)

SaveQueryHistory == \E query \in Queries, response \in Responses, file_name \in FileNames : save_query_history(query, response, file_name)

SubmitFeedback == \E query_id \in FeedbackIds, feedback_type \in FeedbackTypes, comment \in Comments : submit_feedback(query_id, feedback_type, comment)

\* a registered user signs in on the page that holds the session service
SessionSignIn == \E email \in DOMAIN accounts : sign_in(email, accounts[email], "ok")

\* the session service, the sign-in state it reads and the clock
Next == Tick \/ SessionSignIn \/ sign_out \/ SaveQueryHistory \/ clear_history \/ ImportExported \/ ImportJson

Spec == Init /\ [][Next]_vars

\* the session service with feedback on its entries
NextFeedback == SessionSignIn \/ sign_out \/ SaveQueryHistory \/ SubmitFeedback \/ clear_history \/ ImportExported

SpecFeedback == Init /\ [][NextFeedback]_vars

\* the uids the Firestore service is called with
FsUids == {"uidA", "uidB"}

\* the calls issued with one uid; the stored texts play no part in the isolation
FsSaveQueryBy(user_uid) == \E query \in {<<"a", "b">>}, response \in Responses, file_name \in FileNames, doc_id \in DocIds, fail \in BOOLEAN : SaveQuery(user_uid, query, response, file_name, doc_id, fail)

FsUpdateQueryFeedbackBy(user_uid) == \E query_id \in DocIds \cup {"0"}, feedback \in {"positive"}, fail \in BOOLEAN : UpdateQueryFeedback(user_uid, query_id, feedback, fail)

FsDeleteQueryBy(user_uid) == \E query_id \in DocIds \cup {"0"}, fail \in BOOLEAN : DeleteQuery(user_uid, query_id, fail)

FsClearUserQueriesBy(user_uid) == \E fail \in BOOLEAN, gone \in SUBSET Collection(firestore, user_uid) : ClearUserQueries(user_uid, fail, gone)

FsSaveQuery == \E user_uid \in FsUids : FsSaveQueryBy(user_uid)

FsUpdateQueryFeedback == \E user_uid \in FsUids : FsUpdateQueryFeedbackBy(user_uid)

FsDeleteQuery == \E user_uid \in FsUids : FsDeleteQueryBy(user_uid)

FsClearUserQueries == \E user_uid \in FsUids : FsClearUserQueriesBy(user_uid)

\* the auth service under any sequence of sign-ups, sign-ins and sign-outs
NextAuth == SignUp \/ SignIn \/ sign_out

SpecAuth == Init /\ [][NextAuth]_vars

\* the Firestore query service under any sequence of calls
NextFirestore == Tick \/ FsSaveQuery \/ FsUpdateQueryFeedback \/ FsDeleteQuery \/ FsClearUserQueries

\* the auth service takes no part in it
InitFirestore == Init /\ auth

SpecFirestore == InitFirestore /\ [][NextFirestore]_vars

\* the largest number of files in one upload
MaxFiles == 2

\* the uploads the component is rendered with: files that pass, fail validation,
\* fail to read, and two of one name
Uploads == {[name |-> <<"a", ".", "c", "s", "v">>, size |-> 4096, content |-> "rows"], [name |-> <<"a", ".", "c", "s", "v">>, size |-> 4096, content |-> "unreadable"], [name |-> <<"c", ".", "x", "l", "s">>, size |-> 200 * 1024 * 1024, content |-> "rows"], [name |-> <<"b", ".", "x", "l", "s", "x">>, size |-> 200 * 1024 * 1024 + 1, content |-> "rows"], [name |-> <<"b", ".", "x", "l", "s", "x">>, size |-> 4096, content |-> "bad_statistics"], [name |-> <<"a", ".", "t", "x", "t">>, size |-> 4096, content |-> "rows"], [name |-> <<"c", ".", "x", "l", "s">>, size |-> 4096, content |-> "empty"]}

\* the lists of at most MaxFiles uploads
UploadLists == UNION {[1..n -> Uploads] : n \in 0..MaxFiles}

ValidateFile == \E file \in UploadedFiles : validate_file_call(file)

ProcessFile == \E file \in UploadedFiles : process_file_call(file)

ProcessFiles == \E files \in UploadLists : process_files_call(files)

\* the file service under any sequence of calls
NextFiles == ValidateFile \/ ProcessFile \/ ProcessFiles

SpecFiles == Init /\ [][NextFiles]_vars

\* the uploads the component is rendered with: one that is processed, one that fails
\* validation, one that fails to read
RenderUploads == {f \in Uploads : f.size = 4096 /\ f.content # "empty"}

Render == \E auth_modal \in BOOLEAN, uploaded_files \in UNION {[1..n -> RenderUploads] : n \in 0..MaxFiles} : render(auth_modal, uploaded_files)

\* the upload component of a page users sign in to and out of
NextUpload == SessionSignIn \/ sign_out \/ Render

SpecUpload == Init /\ [][NextUpload]_vars

\* the session ids and questions of the requests; None is a question a caller may pass
SessionIds == {"default", "s2"}
Questions == {<<<<"S", "u", "m">>>>, <<<<"h", "i">>>>, Absent}
Requests == [question : Questions, file_name : FileNames, session_id : SessionIds]

\* the processed files passed along: none, one as FileService builds it, one
\* whose data quality has no scores
ProcessedFileDicts == {EmptyDict, [file_name \in FileNames |-> [total_rows |-> 3, completeness_score |-> <<100>>]], [file_name \in FileNames |-> [total_rows |-> 3, completeness_score |-> Absent]]}

ProcessQuery == \E request \in Requests, processed_files \in ProcessedFileDicts, chat \in {"result", "error"}, api \in {"answer", "error"} : process_query_call(request, processed_files, chat, api)

\* the AI service with or without an API key
InitAI == InitServices /\ ~auth /\ ~db /\ InitAIService(BOOLEAN)

ClearSession == \E session_id \in SessionIds : clear_session(session_id)

NextAI == ProcessQuery \/ ClearSession

SpecAI == InitAI /\ [][NextAI]_vars

\* the messages added to each session of a ConversationMemory so far
messages_added == IF last.op = "add_message" THEN last.added ELSE EmptyDict

\* a call of ConversationMemory.add_message on the client's memory: the caller's n-th
\* message to a session names the session and n, roles alternate as the client's do
AddMessage == \E session_id \in SessionIds :
  LET n == Len(get(messages_added, session_id, <<>>)) + 1
      role == IF n % 2 = 1 THEN "user" ELSE "assistant"
      content == <<session_id, " ", str(n)>>
  IN /\ n <= MaxMessages
     /\ conversation_memory' = add_message(conversation_memory, session_id, role, content)
     /\ last' = [op |-> "add_message", session_id |-> session_id, added |-> Put(messages_added, session_id, Append(get(messages_added, session_id, <<>>), [role |-> role, content |-> content, timestamp |-> DateTime(clock)]))]
     /\ UNCHANGED <<firebase_vars, service_vars, openai_client, pandasai_processor, conversation_sessions>>

\* an OpenAIClient was built, its ConversationMemory is empty
InitMemory == InitAI /\ openai_client

NextMemory == AddMessage

SpecMemory == InitMemory /\ [][NextMemory]_vars

Initialize == \E service_account_path \in ServiceAccountPaths, found \in BOOLEAN, env \in Environments, sdk \in {"ok", "raise"}, client \in {"ok", "raise"} : initialize(service_account_path, found, env, sdk, client)

\* the class as imported: _app and _db are None
InitFirebase == Init /\ ~auth /\ ~db

NextFirebase == Initialize

SpecFirebase == InitFirebase /\ [][NextFirebase]_vars

\* the passwords validated: every length up to MaxPasswordLength
PasswordsOfLength == {[i \in 1..n |-> "x"] : n \in 0..MaxPasswordLength}

ValidatePassword == \E password \in PasswordsOfLength : validate_password_call("AuthService", password)

FirebaseValidatePassword == \E password \in PasswordsOfLength : validate_password_call("FirebaseAuthService", password)

NextPassword == ValidatePassword \/ FirebaseValidatePassword

SpecPassword == Init /\ [][NextPassword]_vars

\* a call of FirestoreQueryService.search_user_queries
SearchUserQueries == \E user_uid \in {"uidA"}, search_term \in {NoTerm, Term(<<>>), Term(<<"j", "o", "b">>)}, limit \in {1, 10}, fail \in BOOLEAN :
  /\ last' = [op |-> "search_user_queries", user_uid |-> user_uid, search_term |-> search_term, limit |-> limit, fail |-> fail, ret |-> Return(search_user_queries(firestore, user_uid, search_term, limit, fail))]
  /\ UNCHANGED <<service_vars, ai_vars, firebase_vars>>

\* the document save_query wrote at time t for a query that mentions a job or does not
StoredQuery(user_uid, t, job) == [uid |-> user_uid, id |-> DocIdSeq[t], query |-> IF job THEN <<"J", "o", "b">> ELSE <<"n", "a">>, response |-> <<"s", "o">>, file_name |-> "sales.csv", timestamp |-> DateTime(t), feedback |-> None, owner |-> user_uid]

\* uidA saved a query at each time 1..n, n close to MaxStored, uidB saved one about a
\* job; which of uidA's two oldest and newest queries mention a job varies
InitSearch ==
  /\ \E n \in {MaxStored - 1, MaxStored} : \E jobs \in SUBSET {1, 2, n} :
       InitServicesStoring({StoredQuery("uidA", t, t \in jobs) : t \in 1..n} \cup {StoredQuery("uidB", 1, TRUE)})
  /\ InitAIService({FALSE})
  /\ auth /\ db

NextSearch == SearchUserQueries

SpecSearch == InitSearch /\ [][NextSearch]_vars

\* the column statistics of the files: no column, numeric, categorical and other
\* columns, a column whose statistics have no type
ColumnStatistics == {
  <<>>,
  <<[col |-> "c1", type |-> <<"i", "n", "t", "6", "4">>]>>,
  <<[col |-> "c1", type |-> <<"o", "b", "j", "e", "c", "t">>]>>,
  <<[col |-> "c1", type |-> <<"f", "l", "o", "a", "t", "6", "4">>], [col |-> "c2", type |-> <<"o", "b", "j", "e", "c", "t">>], [col |-> "c3", type |-> <<"i", "n", "t", "6", "4">>]>>,
  <<[col |-> "c1", type |-> <<"b", "o", "o", "l">>], [col |-> "c2", type |-> <<>>]>>}

\* the names of the files, in the order of the dict
ChartFileNames == <<"f1.csv", "f2.csv", "f3.csv">>

\* the processed_files dicts: up to MaxChartFiles items
ChartFiles == UNION {[1..n -> ColumnStatistics] : n \in 0..MaxChartFiles}
ProcessedFileItems(statistics) == [i \in 1..Len(statistics) |-> [file_name |-> ChartFileNames[i], processed_file |-> [column_statistics |-> statistics[i]]]]

\* the questions: which of the five words are in the question
ChartWords == <<<<"C", "o", "r", "r", "e", "l", "a", "t", "i", "o", "n">>, <<"d", "i", "s", "t", "r", "i", "b", "u", "t", "i", "o", "n">>, <<"p", "a", "t", "t", "e", "r", "n">>, <<"C", "a", "t", "e", "g", "o", "r", "y">>, <<"c", "o", "u", "n", "t">>>>
ChartQuestion(words) == LET word(i) == IF i \in words THEN ChartWords[i] ELSE <<"?">> IN word(1) \o <<" ">> \o word(2) \o <<" ">> \o word(3) \o <<" ">> \o word(4) \o <<" ">> \o word(5)

ChartWordChoices == {{}, {1}, {2, 4}, {3, 5}, {5}, {1, 2, 3, 4, 5}}

GenerateVisualizations == \E statistics \in ChartFiles, words \in ChartWordChoices : generate_visualizations_call(ProcessedFileItems(statistics), ChartQuestion(words))

NextCharts == GenerateVisualizations

\* a DataService holds no state
InitCharts == Init /\ ~auth /\ ~db

SpecCharts == InitCharts /\ [][NextCharts]_vars

(***************************************************************************)
(* Claims.                                                                 *)
(***************************************************************************)
\* the default limit of get_query_history
DefaultLimit == 10

\* a result of get_query_history that holds an entry with these fields
HasEntry(result, query, response, file_name) == result.kind = "return" /\ \E i \in 1..Len(result.val) : result.val[i].query = query /\ result.val[i].response = response /\ result.val[i].file_name = file_name

\* C1: in an authenticated session (authenticated = True, a user record with a uid)
\* with Firestore initialised, save_query_history(q, r, f) returns a query id and a
\* later get_query_history by the same user returns an entry with q, r and f.
C1_AuthenticatedSaveIsStored == [][(is_authenticated /\ session_state.user # Absent /\ db /\ SaveQueryHistory) => (last'.ret.kind = "return" /\ HasEntry(get_query_history(DefaultLimit, NoTerm)', last'.query, last'.response, last'.file_name))]_vars

\* C3: sign_in and sign_up never raise and return a (bool, message) pair; (True, ...)
\* only with the new user record and authenticated = True in the session state;
\* with (False, ...) the session state is what it was before the call, also when
\* another user was signed in.
C3_SignInUpAllOrNothing == [][(SignIn \/ SignUp) => (/\ last'.ret.kind = "return" /\ Len(last'.ret.val) = 2 /\ last'.ret.val[1] \in BOOLEAN /\ Len(last'.ret.val[2]) > 0 /\ (last'.ret.val[1] => session_state'.authenticated = <<TRUE>> /\ session_state'.user # Absent /\ session_state'.user[1].uid = UidOf[last'.email] /\ session_state'.user[1].email = last'.email) /\ (~last'.ret.val[1] => session_state' = session_state))]_vars

\* C3: a sign-in failed while another user was signed in, who still is
C3_Witness == last.op = "sign_in" /\ last.ret.val[1] = FALSE /\ is_authenticated /\ get_user_email # last.email

\* a call of the Firestore query service issued with uid U
FsCallBy(U) == (last'.op = "save_query" /\ FsSaveQueryBy(U)) \/ (last'.op = "update_query_feedback" /\ FsUpdateQueryFeedbackBy(U)) \/ (last'.op = "delete_query" /\ FsDeleteQueryBy(U)) \/ (last'.op = "clear_user_queries" /\ FsClearUserQueriesBy(U))

\* C5: a save_query, update_query_feedback, delete_query or clear_user_queries issued
\* with uid U leaves what get_user_queries(V) returns unchanged for every other uid V,
\* and get_user_queries(U) only streams documents saved with uid U.
C5_PerUserIsolation == [][\A U \in FsUids : FsCallBy(U) => \A limit \in 1..MaxLimit : (\A V \in FsUids \ {U} : get_user_queries(firestore', V, limit, FALSE) = get_user_queries(firestore, V, limit, FALSE)) /\ (LET docs == queried_docs(firestore', U, limit) IN \A i \in 1..Len(docs) : docs[i].owner = U)]_vars

\* C5: uidA's queries were cleared while uidB had queries stored
C5_Witness == db /\ last.op = "clear_user_queries" /\ last.uid = "uidA" /\ last.ret = Return(TRUE) /\ get_user_queries(firestore, "uidB", MaxLimit, FALSE) # <<>>

\* C8: in an unauthenticated session save_query_history appends exactly one entry,
\* returns its id, which is current_query_id before the call, and increases
\* current_query_id by exactly 1; the earlier entries are unchanged; a fresh service
\* starts at 0.
C8_LocalSaveAppendsOne == current_query_id = 0 /\ query_history = <<>> /\ [][(~is_authenticated /\ SaveQueryHistory) => (/\ last'.ret = Return(current_query_id) /\ current_query_id' = current_query_id + 1 /\ Len(query_history') = Len(query_history) + 1 /\ SubSeq(query_history', 1, Len(query_history)) = query_history /\ query_history'[Len(query_history')].id = last'.ret.val /\ query_history'[Len(query_history')].query = last'.query)]_vars

\* C8: the second of two consecutive saves on a fresh service returned 1
C8_Witness == ~is_authenticated /\ last.op = "save_query_history" /\ last.ret = Return(1) /\ Len(query_history) = 2 /\ query_history[1].id = 0 /\ query_history[2].id = 1

\* the n most recently saved local entries, the most recent first
MostRecent(n) == [i \in 1..n |-> query_history[Len(query_history) + 1 - i]]

\* C9: in an unauthenticated session with no search term get_query_history(limit)
\* returns, for every limit >= 0, the min(limit, n) most recently saved entries, most
\* recent first.
C9_LocalHistoryLimit == ~is_authenticated => \A limit \in 0..MaxLimit : get_query_history(limit, NoTerm) = Return(MostRecent(IF limit < Len(query_history) THEN limit ELSE Len(query_history)))

\* C10: in an unauthenticated session import_history(export_history('json')) returns
\* True and leaves the history entries and feedback_data as they were, with
\* current_query_id the largest entry id plus 1 (0 for an empty history).
C10_ExportImportRoundTrip == [][(~is_authenticated /\ ImportExported) => (/\ last'.ret = Return(TRUE) /\ query_history' = query_history /\ feedback_data' = feedback_data /\ current_query_id' = IF query_history = <<>> THEN 0 ELSE MaxOf({query_history[i].id : i \in 1..Len(query_history)}) + 1)]_vars

\* C4: while the authentication service is initialised and the user is not
\* authenticated, render returns an empty mapping and never calls process_files; files
\* are processed only when the user is authenticated, or the service is not
\* initialised, or the component has no auth modal.
C4_UploadNeedsSignIn == [][(last'.op = "render" /\ render(last'.auth_modal, last'.files)) => (/\ (auth /\ last'.auth_modal /\ ~is_authenticated => last'.ret = Return(EmptyDict) /\ ~last'.called) /\ (last'.called => is_authenticated \/ ~auth \/ ~last'.auth_modal))]_vars

\* C4: a signed-out render with files in the uploader, the service initialised
C4_Witness == last.op = "render" /\ last.auth_modal /\ auth /\ ~is_authenticated /\ Len(last.files) = 2 /\ ~last.called /\ process_files(last.files).val # EmptyDict

\* a name ending with one of the three extensions
HasSupportedExtension(name) == EndsWith(name, <<".", "c", "s", "v">>) \/ EndsWith(name, <<".", "x", "l", "s", "x">>) \/ EndsWith(name, <<".", "x", "l", "s">>)

\* C6: validate_file returns True exactly when the size is at most 200 * 1024 * 1024
\* bytes and the name ends with '.csv', '.xlsx' or '.xls'; otherwise it returns False
\* and process_file returns None for the file without reading it.
C6_ValidateFile == /\ (last.op = "validate_file" => last.ret = Return(last.file.size <= 209715200 /\ HasSupportedExtension(last.file.name))) /\ (last.op = "process_file" /\ ~(last.file.size <= 209715200 /\ HasSupportedExtension(last.file.name)) => last.ret = Return(Absent) /\ ~last.read)

\* C6: a file of exactly the largest size was accepted
C6_Witness == last.op = "validate_file" /\ last.file.size = 209715200 /\ last.ret = Return(TRUE)

\* a file that process_file turns into a ProcessedFile
Processable(file) == file.size <= 209715200 /\ HasSupportedExtension(file.name) /\ file.content = "rows"

\* C7: process_files never raises; the mapping it returns has a key for a file name
\* exactly when a file of that name was processed successfully, whatever happened to
\* the other files.
C7_ProcessFiles == last.op = "process_files" => (last.ret.kind = "return" /\ DOMAIN last.ret.val = {last.files[i].name : i \in {j \in 1..Len(last.files) : Processable(last.files[j])}})

\* C7: a file that raised in the statistics came before one that was processed
C7_Witness == last.op = "process_files" /\ Len(last.files) = 2 /\ last.files[1].content = "bad_statistics" /\ last.files[1].size = 4096 /\ Processable(last.files[2]) /\ DOMAIN last.ret.val = {last.files[2].name}

\* a call of process_query in which a step of the try block raises
StepRaises(call) == call.request.question = Absent \/ (call.api = "answer" /\ \E file_name \in DOMAIN call.processed_files : call.processed_files[file_name].completeness_score = Absent)

\* C2: process_query never raises; without an OpenAI client it returns success=False
\* with error_type 'ai_unavailable' and calls no backend; when the OpenAI call reports
\* failure or a step raises it returns success=False with a non-empty error message
\* and answer=None; it returns success=True only when the OpenAI call succeeded; a
\* PandasAI failure alone never makes the response unsuccessful.
C2_ProcessQueryNeverRaises == last.op = "process_query" => (/\ last.ret.kind = "return" /\ (~openai_client => ~last.ret.val.success /\ last.ret.val.error_type = <<"ai_unavailable">> /\ last.called = {}) /\ (openai_client /\ (last.api # "answer" \/ StepRaises(last)) => ~last.ret.val.success /\ last.ret.val.error # Absent /\ Len(last.ret.val.error[1]) > 0 /\ last.ret.val.answer = Absent) /\ (last.ret.val.success => openai_client /\ last.api = "answer") /\ (openai_client /\ last.api = "answer" /\ ~StepRaises(last) => last.ret.val.success))

\* C2: the response was successful although the PandasAI chat had failed
C2_Witness == last.op = "process_query" /\ openai_client /\ last.chat = "error" /\ "pandasai" \in last.called /\ last.ret.val.success /\ last.ret.val.pandasai_results # Absent /\ ~last.ret.val.pandasai_results[1].analysis.success

\* C11: in an unauthenticated session clear_history returns True and leaves the local
\* history and feedback_data empty and current_query_id 0; afterwards get_query_history
\* returns an empty list, get_history_statistics reports total_queries 0 and
\* total_feedback 0, and the next save_query_history returns 0.
C11_ClearHistory ==
  [][/\ (~is_authenticated /\ last'.op = "clear_history" /\ clear_history)
          => (/\ last'.ret = Return(TRUE)
              /\ query_history' = <<>>
              /\ feedback_data' = <<>>
              /\ current_query_id' = 0
              /\ get_query_history(DefaultLimit, NoTerm)' = Return(<<>>)
              /\ get_history_statistics'.kind = "return"
              /\ get_history_statistics'.val.total_queries = 0
              /\ get_history_statistics'.val.total_feedback = 0)
     /\ (~is_authenticated /\ last.op = "clear_history" /\ last'.op = "save_query_history" /\ SaveQueryHistory)
          => last'.ret = Return(0)]_vars

\* C11: a history of two entries, each with feedback, was cleared
C11_Witness == ~is_authenticated /\ last.op = "clear_history" /\ last.cleared = 4 /\ last.ret = Return(TRUE) /\ query_history = <<>> /\ feedback_data = <<>> /\ current_query_id = 0

\* the places of the entries of the local history with an id
EntriesWithId(query_id) == {i \in 1..Len(query_history) : query_history[i].id = query_id}

C13_RecentMessagesPerSession ==
  \A session_id \in SessionIds :
    LET added == get(messages_added, session_id, <<>>)
        k == Len(added)
        kept == IF k < max_history THEN k ELSE max_history
        conversation == get_conversation(conversation_memory, session_id)
    IN last.op = "add_message" =>
         /\ Len(conversation) <= max_history
         /\ conversation = SubSeq(added, k - kept + 1, k)
         /\ \A i \in 1..Len(conversation) : conversation[i].content[1] = session_id

\* C13: both sessions were trimmed, one holds its messages 3 to 12, the other 2 to 11
C13_Witness == last.op = "add_message" /\ DOMAIN last.added = SessionIds /\ Len(last.added["default"]) = 12 /\ Len(last.added["s2"]) = 11 /\ Len(conversation_memory["default"]) = 10 /\ conversation_memory["default"][1].content = <<"default", " ", "3">> /\ Len(conversation_memory["s2"]) = 10 /\ conversation_memory["s2"][1].content = <<"s2", " ", "2">>

\* C14: after a successful process_query with session_id s, get_session_conversation(s)
\* returns a non-empty list that contains the user message and the assistant answer.
C14_SessionConversationAfterQuery ==
  (last.op = "process_query" /\ last.ret.kind = "return" /\ last.ret.val.success) =>
    LET conversation == get_session_conversation(last.request.session_id)
    IN /\ conversation.kind = "return"
       /\ conversation.val # <<>>
       /\ \E i \in 1..Len(conversation.val) : conversation.val[i].role = "user" /\ conversation.val[i].content.question = last.request.question
       /\ \E i \in 1..Len(conversation.val) : conversation.val[i].role = "assistant" /\ <<conversation.val[i].content>> = last.ret.val.answer

\* C15: clear_session(s) for a used session completes without error; afterwards
\* get_session_conversation(s) returns [] and no earlier message of the session is left
\* to be sent to the LLM with the next process_query of s.
C15_ClearSession ==
  (last.op = "clear_session" /\ last.session_id \in DOMAIN conversation_sessions /\ last.session_id \in DOMAIN conversation_memory) =>
    /\ last.ret = Return(None)
    /\ get_session_conversation(last.session_id) = Return(<<>>)
    /\ get_conversation(conversation_memory, last.session_id) = <<>>

\* C16: sign_out returns True and from any session state leaves the session
\* unauthenticated: is_authenticated() is False, get_current_user() and
\* get_user_email() return None; when nobody is signed in (a second call included) it
\* changes nothing and still returns True.
C16_SignOut ==
  [][(last'.op = "sign_out" /\ sign_out)
       => (/\ last'.ret = Return(TRUE)
           /\ ~is_authenticated'
           /\ get_current_user' = Absent
           /\ get_user_email' = None
           /\ (~is_authenticated => session_state' = session_state))]_vars

\* C16: a signed-in user was signed out
C16_Witness == last.op = "sign_out" /\ last.signed_in /\ last.ret = Return(TRUE) /\ ~is_authenticated /\ session_state.user = Absent

\* C17: initialize returns True only if initialisation was successful: in every state
\* reached by initialize calls, one that failed part-way included, a call that
\* returned True leaves is_initialized() True and get_firestore_client() a client.
C17_InitializeTrueMeansInitialized ==
  (last.op = "initialize" /\ last.ret = Return(TRUE)) => (is_initialized /\ get_firestore_client # Absent)

\* C18: AuthService.validate_password and FirebaseAuthService._validate_password accept
\* a password exactly when its length is at least 6 and less than 128: (True, '') for
\* such a password and (False, message) with a non-empty message for every other length.
C18_PasswordLength ==
  last.op = "validate_password" =>
    LET accepted == Len(last.password) >= 6 /\ Len(last.password) < 128
    IN /\ last.ret.val[1] = accepted
       /\ (last.ret.val[2] = <<>>) = accepted

\* C19: for a non-empty term search_user_queries(uid, term, limit) returns, most recent
\* first, the limit most recent of all the queries stored for the user whose query or
\* response contains the term case-insensitively (all of them if fewer match); for an
\* empty term it returns an empty list.
C19_SearchAllUserQueries ==
  (last.op = "search_user_queries" /\ ~last.fail) =>
    LET stored == Stream(Collection(firestore, last.user_uid))
        matching == SelectSeq([i \in 1..Len(stored) |-> QueryHistoryOfDoc(stored[i])], LAMBDA q : Matches(last.search_term.s, q))
    IN last.ret = Return(IF last.search_term.none \/ last.search_term.s = <<>> THEN <<>> ELSE SliceTo(matching, last.limit))

\* the file a suggestion is about, the numeric (int64, float64) and the categorical
\* (object) columns of a file, and whether the question contains a word in any case
FileOfSuggestion(call, v) == CHOOSE i \in 1..Len(call.processed_files) : call.processed_files[i].file_name = v.title[2]
ColumnsOfTypes(call, i, types) == {c \in 1..Len(call.processed_files[i].processed_file.column_statistics) : call.processed_files[i].processed_file.column_statistics[c].type \in types}
Asks(call, word) == Contains(word, lower(call.user_question))

\* C20: generate_visualizations returns at most 3 suggestions, none when there are no
\* files; a heatmap only if the question contains 'correlation' and the file has at
\* least 2 numeric columns, a histogram only if it contains 'distribution' or 'pattern'
\* and the file has a numeric column, a bar_chart only if it contains 'category' or
\* 'count' and the file has a categorical column; the suggestions are in the order of
\* the files.
C20_GenerateVisualizations ==
  last.op = "generate_visualizations" =>
    LET ret == last.ret.val
        numeric(i) == ColumnsOfTypes(last, i, {<<"i", "n", "t", "6", "4">>, <<"f", "l", "o", "a", "t", "6", "4">>})
        categorical(i) == ColumnsOfTypes(last, i, {<<"o", "b", "j", "e", "c", "t">>})
    IN /\ last.ret.kind = "return"
       /\ Len(ret) <= 3
       /\ (last.processed_files = <<>> => ret = <<>>)
       /\ \A k \in 1..Len(ret) :
            /\ ret[k].type \in {"heatmap", "histogram", "bar_chart"}
            /\ \E i \in 1..Len(last.processed_files) : last.processed_files[i].file_name = ret[k].title[2]
            /\ (ret[k].type = "heatmap" => Asks(last, <<"c", "o", "r", "r", "e", "l", "a", "t", "i", "o", "n">>) /\ Cardinality(numeric(FileOfSuggestion(last, ret[k]))) >= 2)
            /\ (ret[k].type = "histogram" => (Asks(last, <<"d", "i", "s", "t", "r", "i", "b", "u", "t", "i", "o", "n">>) \/ Asks(last, <<"p", "a", "t", "t", "e", "r", "n">>)) /\ numeric(FileOfSuggestion(last, ret[k])) # {})
            /\ (ret[k].type = "bar_chart" => (Asks(last, <<"c", "a", "t", "e", "g", "o", "r", "y">>) \/ Asks(last, <<"c", "o", "u", "n", "t">>)) /\ categorical(FileOfSuggestion(last, ret[k])) # {})
       /\ \A k \in 1..Len(ret), l \in 1..Len(ret) : k < l => FileOfSuggestion(last, ret[k]) <= FileOfSuggestion(last, ret[l])

\* C20: four suggestions of two files were cut to three: the histogram and the bar chart
\* of the first file, then the histogram of the second
C20_Witness == last.op = "generate_visualizations" /\ Len(last.processed_files) = 2 /\ Len(generate_visualizations_unlimited(last.processed_files, last.user_question)) = 4 /\ Len(last.ret.val) = 3 /\ last.ret.val[1].type = "histogram" /\ last.ret.val[2].type = "bar_chart" /\ last.ret.val[2].title[2] = "f1.csv" /\ last.ret.val[3].type = "histogram" /\ last.ret.val[3].title[2] = "f2.csv"

\* C21: query history does not leak across sign-out: the query a user saved through
\* save_query_history while authenticated is not returned by get_query_history once
\* that user has signed out, when the same service instance is asked by a visitor who
\* is not authenticated.
C21_NoLeakAcrossSignOut ==
  [][(is_authenticated /\ last.op = "save_query_history" /\ last'.op = "sign_out" /\ sign_out)
       => LET returned == get_query_history(DefaultLimit, NoTerm)'
          IN returned.kind = "return" => \A i \in 1..Len(returned.val) : returned.val[i] # query_history[Len(query_history)]]_vars

====
